---- MODULE Spec2Model ----
(***************************************************************************)
(* Model of quant-agents/personal_trading_system.py: the trading           *)
(* orchestrator's control loop, one trading cycle (signals, sizing,        *)
(* compliance, execution, surveillance) and the control surface.           *)
(*                                                                         *)
(* Scheduling.  Everything runs on one asyncio event loop.  The brokerage  *)
(* and market-data clients are synchronous, so a coroutine only yields at  *)
(* asyncio.sleep: the 60 s / 300 s wait of start() and the 2 s delay       *)
(* between the chunks of adaptive_execution.  `cur' is the task that holds *)
(* the event loop (0: none); control requests and other tasks run only     *)
(* when cur = 0.                                                           *)
(*                                                                         *)
(* Units.  Money is in whole dollars.  Confidence is in tenths (7 = 0.7),  *)
(* expected_return in units of 0.002, a Kelly fraction in 80ths.  Time is  *)
(* in half days.                                                           *)
(***************************************************************************)
EXTENDS Integers, Sequences, FiniteSets, TLC

\* ------------------------------------------------------------------ bounds
MaxLoops == 2
MaxUniverse == 2

Loops == 1..MaxLoops

\* TradingOrchestrator.__init__: the default universe (its first MaxUniverse
\* instruments).
AllSymbols == <<"AAPL", "GOOGL", "MSFT", "AMZN", "TSLA", "SPY", "QQQ">>
DefaultUniverse == SubSeq(AllSymbols, 1, MaxUniverse)

Min(a, b) == IF a <= b THEN a ELSE b
Max(a, b) == IF a >= b THEN a ELSE b

VARIABLES
  is_running,       \* TradingOrchestrator.is_running
  trading_enabled,  \* TradingOrchestrator.trading_enabled
  universe,         \* TradingOrchestrator.universe
  trade_log,        \* ComplianceEngine.trade_log
  cur,              \* the task holding the event loop, 0 if none
  pc,               \* per task of start(): its position
  signals,          \* run_trading_cycle local, per task
  orders,           \* run_trading_cycle local, per task
  idx,              \* position of the for-loop over orders (1-based)
  chunks,           \* adaptive_execution local
  ci,               \* adaptive_execution: the enumerate index i, 1-based
  results,          \* adaptive_execution local
  execution,        \* run_trading_cycle local: the last execution result
  trace,            \* history: the events of the task's current cycle
  stopped,          \* history: "yes" once stop() was called on the running task
  call              \* a single call of a function: its inputs and its result

vars == <<is_running, trading_enabled, universe, trade_log, cur, pc, signals,
          orders, idx, chunks, ci, results, execution, trace, stopped, call>>

ctlVars == <<is_running, trading_enabled, universe>>
NoCall == [fn |-> "none"]
cycleVars == <<signals, orders, idx, chunks, ci, results, execution>>

NoExecution == [status |-> "none"]

\* TradingOrchestrator.__init__ and ComplianceEngine.__init__; no task of
\* start() exists yet.
Constructed(u) ==
  /\ is_running = FALSE
  /\ trading_enabled = TRUE
  /\ universe = u
  /\ trade_log = <<>>
  /\ cur = 0
  /\ pc = [l \in Loops |-> "idle"]
  /\ signals = [l \in Loops |-> <<>>]
  /\ orders = [l \in Loops |-> <<>>]
  /\ idx = [l \in Loops |-> 0]
  /\ chunks = [l \in Loops |-> <<>>]
  /\ ci = [l \in Loops |-> 0]
  /\ results = [l \in Loops |-> <<>>]
  /\ execution = [l \in Loops |-> NoExecution]
  /\ trace = [l \in Loops |-> <<>>]
  /\ stopped = [l \in Loops |-> "no"]

\* The orchestrator tracking one instrument; any number of start requests.
Init == Constructed(SubSeq(AllSymbols, 1, 1)) /\ call = NoCall

\* The orchestrator with its universe, after the one start request of the
\* deployment: the task of start() exists and has not run yet.
InitCycle ==
  /\ is_running = FALSE
  /\ trading_enabled = TRUE
  /\ universe = DefaultUniverse
  /\ trade_log = <<>>
  /\ cur = 0
  /\ pc = [l \in Loops |-> IF l = 1 THEN "created" ELSE "idle"]
  /\ signals = [l \in Loops |-> <<>>]
  /\ orders = [l \in Loops |-> <<>>]
  /\ idx = [l \in Loops |-> 0]
  /\ chunks = [l \in Loops |-> <<>>]
  /\ ci = [l \in Loops |-> 0]
  /\ results = [l \in Loops |-> <<>>]
  /\ execution = [l \in Loops |-> NoExecution]
  /\ trace = [l \in Loops |-> <<>>]
  /\ stopped = [l \in Loops |-> "no"]
  /\ call = NoCall

Log(l, e) == trace' = [trace EXCEPT ![l] = Append(@, e)]
HasEvent(t, e) == \E k \in 1..Len(t) : t[k].ev = e
LogAll(l, es) == trace' = [trace EXCEPT ![l] = @ \o es]

\* --------------------------------------------------------- control surface
\* control_trading, action "start": asyncio.create_task(orchestrator.start())
\* with no test of is_running; the task first runs at a later turn of the
\* event loop.
ControlStart ==
  /\ cur = 0
  /\ \E l \in Loops :
       /\ pc[l] = "idle"
       /\ \A k \in Loops : k < l => pc[k] # "idle"
       /\ pc' = [pc EXCEPT ![l] = "created"]
  /\ UNCHANGED <<call, ctlVars, trade_log, cur, cycleVars, trace, stopped>>

\* The tasks that have entered start() and not left it.
Live(l) == pc[l] \notin {"idle", "created", "done"}

\* control_trading, action "stop": TradingOrchestrator.stop.
ControlStop ==
  /\ cur = 0
  /\ is_running' = FALSE
  /\ stopped' = [l \in Loops |->
                   IF Live(l) THEN "yes" ELSE stopped[l]]
  /\ trace' = [l \in Loops |->
                 IF pc[l] = "chunk_sleep" /\ ~HasEvent(trace[l], "stop")
                   THEN Append(trace[l], [ev |-> "stop"])
                   ELSE trace[l]]
  /\ UNCHANGED <<call, trading_enabled, universe, trade_log, cur, pc, cycleVars>>

\* control_trading, actions "enable_trading" and "disable_trading".
ControlEnable ==
  /\ cur = 0
  /\ trading_enabled' = TRUE
  /\ UNCHANGED <<call, is_running, universe, trade_log, cur, pc, cycleVars, trace, stopped>>

ControlDisable ==
  /\ cur = 0
  /\ trading_enabled' = FALSE
  /\ UNCHANGED <<call, is_running, universe, trade_log, cur, pc, cycleVars, trace, stopped>>

\* The lists a request can replace the universe with: the first instrument
\* alone, or one instrument from outside the default universe.
UniverseUpdates == { SubSeq(AllSymbols, 1, 1), <<AllSymbols[MaxUniverse + 1]>> }

\* update_universe: orchestrator.universe = update.symbols.
ControlUpdateUniverse ==
  /\ cur = 0
  /\ \E symbols \in UniverseUpdates : universe' = symbols
  /\ UNCHANGED <<call, is_running, trading_enabled, trade_log, cur, pc, cycleVars,
                 trace, stopped>>

\* ------------------------------------------------------- orchestrator loop
\* TradingOrchestrator.start, first turn of the task: self.is_running = True.
LoopStart(l) ==
  /\ cur = 0
  /\ pc[l] = "created"
  /\ is_running' = TRUE
  /\ pc' = [pc EXCEPT ![l] = "while"]
  /\ cur' = l
  /\ UNCHANGED <<call, trading_enabled, universe, trade_log, cycleVars, trace, stopped>>

\* TradingOrchestrator.start: `while self.is_running', then is_market_hours()
\* (the wall clock, an input): a cycle, or the 300 s wait.
LoopWhile(l) ==
  /\ cur = l
  /\ pc[l] = "while"
  /\ IF ~is_running
       THEN /\ pc' = [pc EXCEPT ![l] = "done"]
            /\ cur' = 0
            /\ UNCHANGED <<cycleVars, trace, stopped>>
       ELSE /\ UNCHANGED stopped
            /\ \E open \in BOOLEAN :
                 IF open
                   THEN /\ pc' = [pc EXCEPT ![l] = "signals"]
                        /\ cur' = l
                        /\ UNCHANGED <<cycleVars, trace>>
                   ELSE /\ pc' = [pc EXCEPT ![l] = "sleep"]
                        /\ cur' = 0
                        /\ UNCHANGED <<cycleVars, trace>>
  /\ UNCHANGED <<call, ctlVars, trade_log>>

\* TradingOrchestrator.start: run_trading_cycle has returned (its locals are
\* gone) and the task waits in asyncio.sleep(60).
CycleReturn(l) ==
  /\ cur = l
  /\ pc[l] = "ended"
  /\ pc' = [pc EXCEPT ![l] = "sleep"]
  /\ cur' = 0
  /\ signals' = [signals EXCEPT ![l] = <<>>]
  /\ orders' = [orders EXCEPT ![l] = <<>>]
  /\ idx' = [idx EXCEPT ![l] = 0]
  /\ chunks' = [chunks EXCEPT ![l] = <<>>]
  /\ ci' = [ci EXCEPT ![l] = 0]
  /\ results' = [results EXCEPT ![l] = <<>>]
  /\ execution' = [execution EXCEPT ![l] = NoExecution]
  /\ trace' = [trace EXCEPT ![l] = <<>>]
  /\ UNCHANGED <<call, ctlVars, trade_log, stopped>>

\* TradingOrchestrator.start: asyncio.sleep(60) / asyncio.sleep(300) returns.
SleepWake(l) ==
  /\ cur = 0
  /\ pc[l] = "sleep"
  /\ pc' = [pc EXCEPT ![l] = "while"]
  /\ cur' = l
  /\ UNCHANGED <<call, ctlVars, trade_log, cycleVars, trace, stopped>>

\* A run_trading_cycle without its `try': the exception leaves start().
on_cycle_error_unhandled == "done"

\* run_trading_cycle: `except Exception as e' logs the error and the cycle
\* returns.
on_cycle_error == "ended"

AbortCycle(l, why) ==
  /\ pc' = [pc EXCEPT ![l] = on_cycle_error]
  /\ cur' = IF on_cycle_error = "done" THEN 0 ELSE l
  /\ Log(l, [ev |-> "abort", why |-> why])

\* ------------------------------------------------------------ signal engine
\* dict.get(key, default)
Get(d, key, default) == IF key \in DOMAIN d THEN d[key] ELSE default

\* What calculate_microstructure_alpha can return: {} (the market-data call
\* failed, or fewer than 10 bars), or the feature dict; vpin-like values in
\* hundredths.
MicroOutcomes ==
  { <<>>, [kyle_lambda |-> -1, volume_imbalance |-> 50] }

\* What calculate_technical_signals can return: {} or the indicator dict.
TechOutcomes ==
  { <<>>, [rsi |-> 20, macd_signal |-> 1] }

\* AlphaSignalGenerator.ml_predict.
ml_score(micro_features, tech_signals) ==
    (IF Get(micro_features, "kyle_lambda", 0) < 0 THEN 1 ELSE 0)
  + (IF Get(micro_features, "vpin", 0) < 30 THEN 1 ELSE 0)
  + (IF Get(tech_signals, "rsi", 50) < 30 THEN 2
     ELSE IF Get(tech_signals, "rsi", 50) > 70 THEN -2 ELSE 0)
  + (IF Get(tech_signals, "macd_signal", 0) > 0 THEN 1 ELSE 0)

ml_confidence(micro_features, tech_signals) ==
    5
  + (IF Get(micro_features, "kyle_lambda", 0) < 0 THEN 1 ELSE 0)
  + (IF Get(micro_features, "vpin", 0) < 30 THEN 1 ELSE 0)
  + (IF Get(tech_signals, "rsi", 50) < 30 THEN 2
     ELSE IF Get(tech_signals, "rsi", 50) > 70 THEN 2 ELSE 0)
  + (IF Get(tech_signals, "macd_signal", 0) > 0 THEN 1 ELSE 0)

ml_predict(micro_features, tech_signals) ==
  LET score == ml_score(micro_features, tech_signals)
      confidence == ml_confidence(micro_features, tech_signals)
      direction == IF score > 1 THEN 1 ELSE IF score < -1 THEN -1 ELSE 0
  IN  [direction |-> direction,
       confidence |-> Min(confidence, 9),
       expected_return |-> direction * confidence,
       holding_period |-> IF confidence > 7 THEN "1D" ELSE "4H"]

\* generate_signals, the body of the loop for one symbol.
combined_signal(symbol, micro_features, tech_signals) ==
  LET ml_signal == ml_predict(micro_features, tech_signals)
  IN  [symbol |-> symbol,
       direction |-> ml_signal.direction,
       confidence |-> ml_signal.confidence,
       expected_return |-> ml_signal.expected_return,
       holding_period |-> ml_signal.holding_period]

\* run_trading_cycle step 1: generate_signals(self.universe).  Both feature
\* functions catch every exception and return {}, so each symbol of the
\* universe gets a signal.
GenerateSignals(l) ==
  /\ cur = l
  /\ pc[l] = "signals"
  /\ \E mf \in [1..Len(universe) -> MicroOutcomes],
        tf \in [1..Len(universe) -> TechOutcomes] :
       signals' = [signals EXCEPT ![l] =
                     [i \in 1..Len(universe) |->
                        combined_signal(universe[i], mf[i], tf[i])]]
  /\ pc' = [pc EXCEPT ![l] = "positions"]
  /\ Log(l, [ev |-> "signals"])
  /\ UNCHANGED <<call, ctlVars, trade_log, cur, orders, idx, chunks, ci, results,
                 execution, stopped>>

\* -------------------------------------------------------------- risk engine
\* What trading_client.get_account() can return.
Accounts ==
  { [equity |-> 100000, buying_power |-> 334],
    [equity |-> 2000000, buying_power |-> 4000000] }

\* What trading_client.get_all_positions() can return: the market_value of
\* each position.
Portfolios ==
  { <<>>, <<1500>> }

\* What trading_client.get_position(symbol) can return: the position with its
\* current_price, or the API error (no position held, brokerage down).
PriceOutcomes ==
  { [ok |-> FALSE, current_price |-> 0],
    [ok |-> TRUE, current_price |-> 150] }

\* RiskManagementEngine.get_current_price: the bare `except' returns 100.0.
get_current_price(outcome) ==
  IF outcome.ok THEN outcome.current_price ELSE 100

\* A calculate_kelly_fraction that does not test the sign of expected_return.
calculate_kelly_fraction_unsigned(expected_return, win_probability) ==
  IF win_probability <= 5
    THEN 0
    ELSE Max(0, Min(3 * win_probability - 10, 8))

\* A calculate_kelly_fraction without the min(..., 0.1) of its return.
calculate_kelly_fraction_uncapped(expected_return, win_probability) ==
  IF expected_return <= 0 \/ win_probability <= 5
    THEN 0
    ELSE Max(0, 3 * win_probability - 10)

\* RiskManagementEngine.calculate_kelly_fraction, in 80ths.
\*   kelly = p - (1 - p) / 2 = (3c - 10) / 20 for p = c / 10;
\*   max(0, min(kelly * 0.25, 0.1)) = max(0, min(3c - 10, 8)) / 80.
calculate_kelly_fraction(expected_return, win_probability) ==
  IF expected_return <= 0 \/ win_probability <= 5
    THEN 0
    ELSE Max(0, Min(3 * win_probability - 10, 8))

\* A position_size that forgets the buying-power term.
position_size_no_buying_power(signal, account) ==
  Min(calculate_kelly_fraction(signal.expected_return, signal.confidence)
        * account.equity,
      8 * account.equity)

\* optimize_portfolio: position_size, times 80.
\*   min(kelly_fraction * portfolio_value,
\*       self.max_position_size * portfolio_value, buying_power * 0.9)
position_size(signal, account) ==
  Min(calculate_kelly_fraction(signal.expected_return, signal.confidence)
        * account.equity,
      Min(8 * account.equity, 72 * account.buying_power))

\* optimize_portfolio: int(position_size / price), position_size in 80ths of a
\* dollar and positive.
order_quantity(size80, price) == size80 \div (80 * price)

\* optimize_portfolio: the order sized for one signal, <<>> if none.
\* `px' is not a key of the order dict: it records the price used to size it.
sized_order(signal, account, price) ==
  LET size80 == position_size(signal, account)
      quantity == order_quantity(size80, price)
  IN  IF signal.confidence > 6 /\ signal.direction # 0
         /\ size80 > 80 * 100 /\ quantity > 0
        THEN << [symbol |-> signal.symbol,
                 quantity |-> quantity,
                 side |-> IF signal.direction > 0 THEN "buy" ELSE "sell",
                 signal |-> signal,
                 px |-> price] >>
        ELSE <<>>

RECURSIVE proposed_orders(_, _, _)
proposed_orders(sigs, account, prices) ==
  IF sigs = <<>> THEN <<>>
  ELSE sized_order(Head(sigs), account, get_current_price(prices[1]))
         \o proposed_orders(Tail(sigs), account, Tail(prices))

RECURSIVE SumAbs(_)
SumAbs(vs) ==
  IF vs = <<>> THEN 0
  ELSE (IF Head(vs) < 0 THEN -Head(vs) ELSE Head(vs)) + SumAbs(Tail(vs))

RECURSIVE SumSq(_)
SumSq(vs) == IF vs = <<>> THEN 0 ELSE Head(vs) * Head(vs) + SumSq(Tail(vs))

\* RiskManagementEngine.calculate_portfolio_risk: leverage and concentration
\* as fractions num / den.  account is the second get_account() of the call.
calculate_portfolio_risk(positions, account) ==
  IF positions = <<>>
    THEN [current_leverage |-> [num |-> 0, den |-> 1],
          concentration_risk |-> [num |-> 0, den |-> 1]]
    ELSE LET total_value == SumAbs(positions)
         IN  [current_leverage |-> [num |-> total_value, den |-> account.equity],
              concentration_risk |->
                IF total_value > 0
                  THEN [num |-> SumSq(positions), den |-> total_value * total_value]
                  ELSE [num |-> 0, den |-> 1]]

\* A scale_orders that rounds the halved quantity up instead of truncating.
scale_orders_rounded_up(os) ==
  [i \in 1..Len(os) |-> [os[i] EXCEPT !.quantity = (@ + 1) \div 2]]

\* apply_risk_constraints: int(order['quantity'] * 0.5) for every order.
scale_orders(os) ==
  [i \in 1..Len(os) |-> [os[i] EXCEPT !.quantity = @ \div 2]]

FilterPositive(os) == SelectSeq(os, LAMBDA o : o.quantity > 0)

\* An apply_risk_constraints without the `orders[:3]' of the concentration
\* test.
apply_risk_constraints_no_cut(os, risk_metrics) ==
  LET lev == risk_metrics.current_leverage
  IN  FilterPositive(IF 10 * lev.num > 16 * lev.den THEN scale_orders(os) ELSE os)

\* RiskManagementEngine.apply_risk_constraints.
\*   current_leverage > max_leverage * 0.8:  num / den > 1.6
\*   concentration_risk > 0.3:               num / den > 0.3
apply_risk_constraints(os, risk_metrics) ==
  LET lev == risk_metrics.current_leverage
      hhi == risk_metrics.concentration_risk
      scaled == IF 10 * lev.num > 16 * lev.den THEN scale_orders(os) ELSE os
      cut == IF 10 * hhi.num > 3 * hhi.den
               THEN SubSeq(scaled, 1, Min(3, Len(scaled)))
               ELSE scaled
  IN  FilterPositive(cut)

\* RiskManagementEngine.optimize_portfolio, given what the brokerage returns.
optimize_portfolio(sigs, account, positions, account2, prices) ==
  apply_risk_constraints(proposed_orders(sigs, account, prices),
                         calculate_portfolio_risk(positions, account2))

\* run_trading_cycle step 2: trading_client.get_all_positions().  A failure
\* is caught by the `except' of run_trading_cycle.
GetPositions(l) ==
  /\ cur = l
  /\ pc[l] = "positions"
  /\ \E ok \in BOOLEAN :
       IF ok
         THEN /\ pc' = [pc EXCEPT ![l] = "optimize"]
              /\ Log(l, [ev |-> "positions"])
              /\ cur' = l
         ELSE AbortCycle(l, "get_all_positions")
  /\ UNCHANGED <<call, ctlVars, trade_log, cycleVars, stopped>>

\* run_trading_cycle step 3: risk_engine.optimize_portfolio(signals, ...).
\* get_account() (twice) and get_all_positions() may fail: the cycle aborts.
OptimizePortfolio(l) ==
  /\ cur = l
  /\ pc[l] = "optimize"
  /\ \/ \E why \in {"get_account", "get_all_positions"} :
          /\ AbortCycle(l, why)
          /\ UNCHANGED <<orders, idx>>
     \/ \E account \in Accounts, positions \in Portfolios, account2 \in Accounts,
           prices \in [1..Len(signals[l]) -> PriceOutcomes] :
          /\ orders' = [orders EXCEPT ![l] =
                          optimize_portfolio(signals[l], account, positions,
                                             account2, prices)]
          /\ idx' = [idx EXCEPT ![l] = 1]
          /\ pc' = [pc EXCEPT ![l] = "check"]
          /\ Log(l, [ev |-> "optimize"])
          /\ cur' = l
  /\ UNCHANGED <<call, ctlVars, trade_log, signals, chunks, ci, results, execution, stopped>>

\* -------------------------------------------------------- compliance engine
\* What the get_account() of is_pattern_day_trader_violation can return.  The
\* call can also raise: the brokerage fails, or os.getenv raises NameError
\* (the module never imports os), which PreTradeCheck models as an abort.
PdtAccounts ==
  { [equity |-> 100000, pattern_day_trader |-> FALSE],
    [equity |-> 20000, pattern_day_trader |-> TRUE] }

\* ComplianceEngine.is_pattern_day_trader_violation.
is_pattern_day_trader_violation(account) ==
  account.equity < 25000 /\ account.pattern_day_trader

\* ComplianceEngine.exceeds_position_limit.
exceeds_position_limit(order) == FALSE

\* datetime.timedelta.days for a difference of two datetimes given in half
\* days: the whole days of it, rounded down.
timedelta_days(delta) == delta \div 2

\* ComplianceEngine.is_wash_sale; timestamps and now in half days.
is_wash_sale(order, log, now) ==
  \E k \in 1..Len(log) :
    /\ Get(log[k].execution, "symbol", "None") = order.symbol
    /\ timedelta_days(now - log[k].timestamp) <= 30
    /\ Get(log[k].execution, "side", "None") = "sell"
    /\ order.side = "buy"

\* ComplianceEngine.pre_trade_check: the list of violations.
violations_of(order, account, log, now) ==
     (IF is_pattern_day_trader_violation(account)
        THEN <<"Pattern day trading rule violation">> ELSE <<>>)
  \o (IF exceeds_position_limit(order)
        THEN <<"Position concentration limit exceeded">> ELSE <<>>)
  \o (IF is_wash_sale(order, log, now)
        THEN <<"Potential wash sale detected">> ELSE <<>>)

\* A pre_trade_check that reports the violations and still passes the order.
pre_trade_check_always_passed(order, account, log, now) ==
  [passed |-> TRUE, violations |-> violations_of(order, account, log, now)]

\* ComplianceEngine.pre_trade_check: (len(violations) == 0, violations).
pre_trade_check(order, account, log, now) ==
  LET violations == violations_of(order, account, log, now)
  IN  [passed |-> Len(violations) = 0, violations |-> violations]

\* The wall clock, in half days.
Clock == {0, 80}

\* A cycle without the `continue'.
after_check_no_continue(passed) == "gate"

\* run_trading_cycle: `if not passed: continue'.
after_check(passed) == IF passed THEN "gate" ELSE "check"

\* run_trading_cycle step 4, the head of `for order in orders' and
\* compliance_engine.pre_trade_check(order).  When the list is exhausted the
\* cycle returns and start() waits 60 s.
PreTradeCheck(l) ==
  /\ cur = l
  /\ pc[l] = "check"
  /\ IF idx[l] > Len(orders[l])
       THEN /\ pc' = [pc EXCEPT ![l] = "ended"]
            /\ cur' = l
            /\ Log(l, [ev |-> "end"])
            /\ UNCHANGED idx
       ELSE \/ /\ AbortCycle(l, "pre_trade_check")
               /\ UNCHANGED idx
            \/ \E account \in PdtAccounts, now \in Clock :
                 LET r == pre_trade_check(orders[l][idx[l]], account, trade_log, now)
                     to == after_check(r.passed)
                 IN  /\ pc' = [pc EXCEPT ![l] = to]
                     /\ idx' = [idx EXCEPT ![l] = IF to = "check" THEN @ + 1 ELSE @]
                     /\ Log(l, [ev |-> "check", idx |-> idx[l], passed |-> r.passed,
                                violations |-> r.violations])
                     /\ cur' = l
  /\ UNCHANGED <<call, ctlVars, trade_log, signals, orders, chunks, ci, results,
                 execution, stopped>>

\* A cycle that executes whatever the flag says.
execution_gate_ignored(enabled) == "execute"

\* run_trading_cycle step 5: `if self.trading_enabled'.
execution_gate(enabled) == IF enabled THEN "execute" ELSE "check"

TradingGate(l) ==
  /\ cur = l
  /\ pc[l] = "gate"
  /\ LET to == execution_gate(trading_enabled)
     IN  /\ pc' = [pc EXCEPT ![l] = to]
         /\ idx' = [idx EXCEPT ![l] = IF to = "check" THEN @ + 1 ELSE @]
         /\ Log(l, [ev |-> "gate", idx |-> idx[l], enabled |-> trading_enabled])
  /\ UNCHANGED <<call, ctlVars, trade_log, cur, signals, orders, chunks, ci, results,
                 execution, stopped>>

\* --------------------------------------------------------- execution engine
\* A select_execution_strategy that tests the size before the confidence.
select_execution_strategy_size_first(order) ==
  IF order.quantity > 1000 THEN "PASSIVE"
  ELSE IF order.signal.confidence > 8 THEN "AGGRESSIVE"
  ELSE "ADAPTIVE"

\* ExecutionEngine.select_execution_strategy.
select_execution_strategy(order) ==
  IF order.signal.confidence > 8 THEN "AGGRESSIVE"
  ELSE IF order.quantity > 1000 THEN "PASSIVE"
  ELSE "ADAPTIVE"

\* ExecutionEngine.aggressive_execution: the result once submit_order returned.
aggressive_result == [status |-> "submitted", order_id |-> "id",
                      strategy |-> "aggressive"]

\* ExecutionEngine.passive_execution: limit_price in 1/10000 dollar, one basis
\* point below the price for a buy and above it for a sell.
limit_price(order, price) ==
  IF order.side = "buy" THEN price * 9999 ELSE price * 10001

passive_result(order, price) ==
  [status |-> "submitted", order_id |-> "id", strategy |-> "passive",
   limit_price |-> limit_price(order, price)]

\* ExecutionEngine.adaptive_execution: the chunks.
RECURSIVE split_chunks(_, _)
split_chunks(chunk_size, remaining) ==
  IF remaining > 0
    THEN LET current_chunk == Min(chunk_size, remaining)
         IN  <<current_chunk>> \o split_chunks(chunk_size, remaining - current_chunk)
    ELSE <<>>

\* An adaptive_execution that makes five chunks of chunk_size and forgets the
\* remainder.
adaptive_chunks_equal(quantity) == [i \in 1..5 |-> Max(1, quantity \div 5)]

adaptive_chunks(quantity) == split_chunks(Max(1, quantity \div 5), quantity)

adaptive_result(cs, rs) ==
  [status |-> "submitted", strategy |-> "adaptive", chunks |-> Len(cs),
   results |-> rs]

\* An execute_order that lets the exception through.
on_execution_error_reraised(error) == [status |-> "raised", error |-> error]

\* ExecutionEngine.execute_order: `except Exception as e' turns whatever the
\* body raised into a failed result.
on_execution_error(error) == [status |-> "failed", error |-> error]

\* One trading_client.submit_order, as the brokerage saw it.
Submission(l, order, quantity, kind) ==
  [ev |-> "submit", idx |-> idx[l], symbol |-> order.symbol,
   quantity |-> quantity, kind |-> kind]

\* run_trading_cycle: what follows `execution = await execute_order(order)'.
\* A result is a dict; an exception that left execute_order is caught by the
\* `except' of run_trading_cycle.
AfterExecute(l, result, events) ==
  /\ LogAll(l, events \o <<[ev |-> "result", idx |-> idx[l],
                            status |-> result.status]>>)
  /\ IF result.status = "raised"
       THEN /\ pc' = [pc EXCEPT ![l] = on_cycle_error]
            /\ cur' = IF on_cycle_error = "done" THEN 0 ELSE l
            /\ UNCHANGED execution
       ELSE /\ pc' = [pc EXCEPT ![l] = "surveil"]
            /\ cur' = l
            /\ execution' = [execution EXCEPT ![l] = result]

\* An exception raised inside the `try' of execute_order.
Fault(l, where) == [ev |-> "fault", idx |-> idx[l], where |-> where]

\* run_trading_cycle step 5: execution_engine.execute_order(order), up to its
\* return (aggressive, passive, a failure) or to the first chunk of
\* adaptive_execution.
ExecuteOrder(l) ==
  /\ cur = l
  /\ pc[l] = "execute"
  /\ LET order == orders[l][idx[l]]
         strategy == select_execution_strategy(order)
         called == [ev |-> "execute", idx |-> idx[l], strategy |-> strategy]
     IN  \/ /\ AfterExecute(l, on_execution_error("select_execution_strategy"),
                            <<called, Fault(l, "select_execution_strategy")>>)
            /\ UNCHANGED <<chunks, ci, results>>
         \/ /\ strategy = "AGGRESSIVE"
            /\ \E ok \in BOOLEAN :
                 IF ok
                   THEN AfterExecute(l, aggressive_result,
                          <<called, Submission(l, order, order.quantity, "market")>>)
                   ELSE AfterExecute(l, on_execution_error("submit_order"),
                          <<called, Fault(l, "submit_order")>>)
            /\ UNCHANGED <<chunks, ci, results>>
         \/ /\ strategy = "PASSIVE"
            /\ \E ok \in BOOLEAN, quote \in PriceOutcomes :
                 IF ok
                   THEN AfterExecute(l, passive_result(order, get_current_price(quote)),
                          <<called, Submission(l, order, order.quantity, "limit")>>)
                   ELSE AfterExecute(l, on_execution_error("submit_order"),
                          <<called, Fault(l, "submit_order")>>)
            /\ UNCHANGED <<chunks, ci, results>>
         \/ /\ strategy = "ADAPTIVE"
            /\ chunks' = [chunks EXCEPT ![l] = adaptive_chunks(order.quantity)]
            /\ ci' = [ci EXCEPT ![l] = 1]
            /\ results' = [results EXCEPT ![l] = <<>>]
            /\ pc' = [pc EXCEPT ![l] = "chunk"]
            /\ LogAll(l, <<called>>)
            /\ UNCHANGED <<cur, execution>>
  /\ UNCHANGED <<call, ctlVars, trade_log, signals, orders, idx, stopped>>

\* adaptive_execution: one turn of `for i, chunk in enumerate(chunks)': a
\* market order for even i, a limit order for odd i (i = ci - 1), then the
\* 2 s delay unless this was the last chunk.
SubmitChunk(l) ==
  /\ cur = l
  /\ pc[l] = "chunk"
  /\ LET order == orders[l][idx[l]]
         chunk == chunks[l][ci[l]]
         market == (ci[l] - 1) % 2 = 0
     IN  \E ok \in BOOLEAN, quote \in PriceOutcomes :
           IF ~ok
             THEN /\ AfterExecute(l, on_execution_error("submit_order"),
                                  <<Fault(l, "submit_order")>>)
                  /\ UNCHANGED results
             ELSE LET r == IF market THEN aggressive_result
                           ELSE passive_result(order, get_current_price(quote))
                      rs == Append(results[l], r)
                      sub == Submission(l, order, chunk,
                                        IF market THEN "market" ELSE "limit")
                  IN  /\ results' = [results EXCEPT ![l] = rs]
                      /\ IF ci[l] < Len(chunks[l])
                           THEN /\ pc' = [pc EXCEPT ![l] = "chunk_sleep"]
                                /\ cur' = 0
                                /\ Log(l, sub)
                                /\ UNCHANGED execution
                           ELSE AfterExecute(l, adaptive_result(chunks[l], rs), <<sub>>)
  /\ UNCHANGED <<call, ctlVars, trade_log, signals, orders, idx, chunks, ci, stopped>>

\* adaptive_execution: asyncio.sleep(2) returns; the next chunk.
ChunkWake(l) ==
  /\ cur = 0
  /\ pc[l] = "chunk_sleep"
  /\ pc' = [pc EXCEPT ![l] = "chunk"]
  /\ ci' = [ci EXCEPT ![l] = @ + 1]
  /\ cur' = l
  /\ UNCHANGED <<call, ctlVars, trade_log, signals, orders, idx, chunks, results,
                 execution, trace, stopped>>

\* A deque without its maxlen.
deque_append_unbounded(d, e, maxlen) == Append(d, e)

\* collections.deque(maxlen).append
deque_append(d, e, maxlen) ==
  IF Len(d) < maxlen THEN Append(d, e) ELSE Append(Tail(d), e)

\* run_trading_cycle step 6: compliance_engine.post_trade_surveillance.  The
\* dict passed to trade_log.append is built first, and it reads
\* execution['symbol']: a KeyError when the result has no such key, caught by
\* the `except' of run_trading_cycle.
PostTradeSurveillance(l) ==
  /\ cur = l
  /\ pc[l] = "surveil"
  /\ IF "symbol" \in DOMAIN execution[l]
       THEN /\ \E now \in Clock :
                 trade_log' = deque_append(trade_log,
                                [timestamp |-> now, execution |-> execution[l]],
                                10000)
            /\ pc' = [pc EXCEPT ![l] = "check"]
            /\ idx' = [idx EXCEPT ![l] = @ + 1]
            /\ Log(l, [ev |-> "surveilled", idx |-> idx[l]])
            /\ cur' = l
       ELSE /\ AbortCycle(l, "post_trade_surveillance")
            /\ UNCHANGED <<trade_log, idx>>
  /\ UNCHANGED <<call, ctlVars, signals, orders, chunks, ci, results, execution, stopped>>

\* ---------------------------------------------------------- specification
\* One step of a task of start().
LoopStep(l) ==
       \/ LoopStart(l)
       \/ LoopWhile(l)
       \/ CycleReturn(l)
       \/ SleepWake(l)
       \/ GenerateSignals(l)
       \/ GetPositions(l)
       \/ OptimizePortfolio(l)
       \/ PreTradeCheck(l)
       \/ TradingGate(l)
       \/ ExecuteOrder(l)
       \/ SubmitChunk(l)
       \/ ChunkWake(l)
       \/ PostTradeSurveillance(l)

Next ==
  \/ ControlStart
  \/ ControlStop
  \/ ControlEnable
  \/ ControlDisable
  \/ ControlUpdateUniverse
  \/ \E l \in Loops : LoopStep(l)

\* The whole system: every control request, up to MaxLoops tasks of start().
Spec == Init /\ [][Next]_vars

\* One task of start() and the control requests that do not create another.
NextCycle ==
  \/ ControlStop
  \/ ControlEnable
  \/ ControlDisable
  \/ ControlUpdateUniverse
  \/ \E l \in Loops : LoopStep(l)

SpecCycle == InitCycle /\ [][NextCycle]_vars

\* ----------------------------------------- optimize_portfolio on its own
\* What calculate_microstructure_alpha and calculate_technical_signals can
\* return, in full.
AllMicro ==
  { <<>> } \cup { [kyle_lambda |-> k, volume_imbalance |-> 50] : k \in {-1, 1} }

AllTech ==
  { <<>> } \cup { [rsi |-> r, macd_signal |-> m] : r \in {20, 50, 80}, m \in {-1, 1} }

\* The signals generate_signals can produce for a symbol.
SignalsFor(symbol) ==
  { combined_signal(symbol, m, t) : m \in AllMicro, t \in AllTech }

\* The short signal ml_predict scores for a symbol when it is given a VPIN of
\* 0.5 under the key 'vpin' it reads, as a caller of ml_predict and
\* optimize_portfolio other than generate_signals can: direction -1,
\* confidence 0.7, expected_return -0.014.
ShortSignalsFor(symbol) ==
  { combined_signal(symbol, [kyle_lambda |-> 1, vpin |-> 50],
                    [rsi |-> 80, macd_signal |-> -1]) }

RiskAccounts ==
  { [equity |-> 100000, buying_power |-> 100000],
    [equity |-> 100000, buying_power |-> 334],
    [equity |-> 2000000, buying_power |-> 4000000],
    [equity |-> 1200, buying_power |-> 5000],
    [equity |-> 900, buying_power |-> 1800] }

RiskPortfolios == { <<>>, <<1500>>, <<400, 400, 400, -400>> }

RiskPrices ==
  { [ok |-> FALSE, current_price |-> 0],
    [ok |-> TRUE, current_price |-> 150],
    [ok |-> TRUE, current_price |-> 7] }

\* One call of optimize_portfolio: the signals of the universe and what the
\* brokerage answers during the call.
InitRisk ==
  /\ Constructed(DefaultUniverse)
  /\ \E sigs \in [1..MaxUniverse ->
                   UNION { SignalsFor(AllSymbols[i]) \cup ShortSignalsFor(AllSymbols[i]) :
                           i \in 1..MaxUniverse }],
        account \in RiskAccounts, positions \in RiskPortfolios,
        equity2 \in {900, 100000},
        prices \in [1..MaxUniverse -> RiskPrices] :
       /\ \A i \in 1..MaxUniverse : sigs[i].symbol = AllSymbols[i]
       /\ call = [fn |-> "optimize_portfolio", done |-> FALSE, signals |-> sigs,
                  account |-> account, positions |-> positions,
                  account2 |-> [equity |-> equity2, buying_power |-> 0],
                  prices |-> prices, orders |-> <<>>]

CallOptimizePortfolio ==
  /\ call.fn = "optimize_portfolio"
  /\ ~call.done
  /\ call' = [call EXCEPT !.done = TRUE,
                          !.orders = optimize_portfolio(call.signals, call.account,
                                       call.positions, call.account2, call.prices)]
  /\ UNCHANGED <<ctlVars, trade_log, cur, pc, cycleVars, trace, stopped>>

NextRisk == CallOptimizePortfolio

SpecRisk == InitRisk /\ [][NextRisk]_vars

\* Everything but `call': untouched by a call of a function on its own.
callFrame == <<ctlVars, trade_log, cur, pc, cycleVars, trace, stopped>>

\* ------------------------------------ calculate_kelly_fraction on its own
\* The arguments: win_probability in tenths, from below 0 to above 1, and
\* expected_return in units of 0.002, of either sign.
MaxTenths == 12
MaxReturn == 10

InitKelly ==
  /\ Constructed(DefaultUniverse)
  /\ \E expected_return \in (-MaxReturn)..MaxReturn,
        win_probability \in (-2)..MaxTenths :
       call = [fn |-> "calculate_kelly_fraction", done |-> FALSE,
               expected_return |-> expected_return,
               win_probability |-> win_probability, result |-> 0]

CallKellyFraction ==
  /\ call.fn = "calculate_kelly_fraction"
  /\ ~call.done
  /\ call' = [call EXCEPT !.done = TRUE,
                          !.result = calculate_kelly_fraction(call.expected_return,
                                                              call.win_probability)]
  /\ UNCHANGED callFrame

NextKelly == CallKellyFraction

SpecKelly == InitKelly /\ [][NextKelly]_vars

\* -------------------------------------- apply_risk_constraints on its own
MaxOrders == 4

\* The quantities int(position_size / price) of the proposed orders.
OrderQuantities == {1, 2, 7}

\* The confidence, in tenths, of the signal of a proposed order (above 0.6).
OrderConfidences == {7, 9}

\* The lists of proposed orders optimize_portfolio can hand to
\* apply_risk_constraints: one order per symbol, in the order of the signals.
ProposedOrderLists ==
  UNION { { [i \in 1..n |-> [symbol |-> AllSymbols[i], quantity |-> q[i],
                             side |-> "buy",
                             signal |-> [symbol |-> AllSymbols[i],
                                         confidence |-> c[i]]]] :
            q \in [1..n -> OrderQuantities],
            c \in [1..n -> OrderConfidences] } : n \in 0..MaxOrders }

\* One call of apply_risk_constraints: the proposed orders, and the risk
\* metrics calculate_portfolio_risk computed from the positions and the
\* account the brokerage returned.
InitConstraints ==
  /\ Constructed(DefaultUniverse)
  /\ \E os \in ProposedOrderLists, positions \in RiskPortfolios,
        equity \in {900, 100000} :
       call = [fn |-> "apply_risk_constraints", done |-> FALSE, orders |-> os,
               risk_metrics |->
                 calculate_portfolio_risk(positions,
                   [equity |-> equity, buying_power |-> 0]),
               result |-> <<>>]

CallApplyRiskConstraints ==
  /\ call.fn = "apply_risk_constraints"
  /\ ~call.done
  /\ call' = [call EXCEPT !.done = TRUE,
                          !.result = apply_risk_constraints(call.orders,
                                                            call.risk_metrics)]
  /\ UNCHANGED callFrame

NextConstraints == CallApplyRiskConstraints

SpecConstraints == InitConstraints /\ [][NextConstraints]_vars

\* ----------------------------------------- adaptive_execution on its own
MaxQuantity == 25

\* One call of adaptive_execution, for a buy order of 1..MaxQuantity units:
\* `at' is the position of the coroutine, `submitted' what the brokerage
\* received, `delays' the number of asyncio.sleep(2) begun.
InitAdaptive ==
  /\ Constructed(DefaultUniverse)
  /\ \E quantity \in 1..MaxQuantity :
       call = [fn |-> "adaptive_execution", done |-> FALSE, at |-> "split",
               order |-> [symbol |-> AllSymbols[1], quantity |-> quantity,
                          side |-> "buy"],
               chunks |-> <<>>, i |-> 0, results |-> <<>>, submitted |-> <<>>,
               delays |-> 0, result |-> NoExecution]

\* adaptive_execution: chunk_size and the `while remaining > 0' loop.
CallAdaptiveSplit ==
  /\ call.fn = "adaptive_execution"
  /\ call.at = "split"
  /\ call' = [call EXCEPT !.chunks = adaptive_chunks(call.order.quantity),
                          !.i = 1, !.at = "chunk"]
  /\ UNCHANGED callFrame

\* adaptive_execution: one turn of `for i, chunk in enumerate(chunks)' (i is
\* call.i - 1): the submission, which can raise, then the delay or the return.
CallAdaptiveChunk ==
  /\ call.fn = "adaptive_execution"
  /\ call.at = "chunk"
  /\ LET chunk == call.chunks[call.i]
         market == (call.i - 1) % 2 = 0
     IN  \E ok \in BOOLEAN, quote \in PriceOutcomes :
           IF ~ok
             THEN call' = [call EXCEPT !.done = TRUE, !.at = "raised",
                                       !.result = [status |-> "raised"]]
             ELSE LET r == IF market THEN aggressive_result
                           ELSE passive_result(call.order, get_current_price(quote))
                      rs == Append(call.results, r)
                      sub == [quantity |-> chunk,
                              kind |-> IF market THEN "market" ELSE "limit"]
                  IN  IF call.i < Len(call.chunks)
                        THEN call' = [call EXCEPT !.results = rs,
                                       !.submitted = Append(@, sub),
                                       !.delays = @ + 1, !.at = "sleep"]
                        ELSE call' = [call EXCEPT !.results = rs,
                                       !.submitted = Append(@, sub),
                                       !.done = TRUE, !.at = "returned",
                                       !.result = adaptive_result(call.chunks, rs)]
  /\ UNCHANGED callFrame

\* adaptive_execution: asyncio.sleep(2) returns.
CallAdaptiveWake ==
  /\ call.fn = "adaptive_execution"
  /\ call.at = "sleep"
  /\ call' = [call EXCEPT !.i = @ + 1, !.at = "chunk"]
  /\ UNCHANGED callFrame

NextAdaptive ==
  \/ CallAdaptiveSplit
  \/ CallAdaptiveChunk
  \/ CallAdaptiveWake

SpecAdaptive == InitAdaptive /\ [][NextAdaptive]_vars

\* ------------------------------------------------- is_wash_sale on its own
MaxLog == 2

\* The time of the call, and the ages of the entries of the trade log, in
\* half days: 15, 30, 30.5, 31 and 40 days.
WashNow == 100
WashAges == {30, 60, 61, 62, 80}

\* The `execution' of a trade-log entry: a dict naming the instrument and the
\* side of the trade, or a result of execute_order, which names neither.
WashExecutions ==
  { [symbol |-> AllSymbols[i], side |-> sd] : i \in 1..2, sd \in {"buy", "sell"} }
    \cup { aggressive_result }

WashEntries ==
  { [timestamp |-> WashNow - age, execution |-> e] :
      age \in WashAges, e \in WashExecutions }

\* One call of is_wash_sale: the order checked and the trade log at the call.
InitWash ==
  /\ Constructed(DefaultUniverse)
  /\ \E n \in 0..MaxLog :
       \E log \in [1..n -> WashEntries], sd \in {"buy", "sell"} :
         call = [fn |-> "is_wash_sale", done |-> FALSE,
                 order |-> [symbol |-> AllSymbols[1], quantity |-> 1, side |-> sd],
                 log |-> log, now |-> WashNow, result |-> FALSE]

CallIsWashSale ==
  /\ call.fn = "is_wash_sale"
  /\ ~call.done
  /\ call' = [call EXCEPT !.done = TRUE,
                          !.result = is_wash_sale(call.order, call.log, call.now)]
  /\ UNCHANGED callFrame

NextWash == CallIsWashSale

SpecWash == InitWash /\ [][NextWash]_vars

\* --------------------------------------------- generate_signals on its own
\* What data_client.get_stock_bars and the feature arithmetic do for one
\* symbol: an exception, too few bars, or the features.
BarsError == [status |-> "error"]
BarsShort == [status |-> "short"]

MicroBars ==
  { BarsError, BarsShort,
    [status |-> "ok", features |-> [kyle_lambda |-> -1, volume_imbalance |-> 50]] }

TechBars ==
  { BarsError, BarsShort,
    [status |-> "ok", features |-> [rsi |-> 20, macd_signal |-> 1]] }

\* AlphaSignalGenerator.calculate_microstructure_alpha: `return {}' for too
\* few bars, and `except Exception' logs and returns {}.
calculate_microstructure_alpha(bars) ==
  IF bars.status = "ok" THEN bars.features ELSE <<>>

\* AlphaSignalGenerator.calculate_technical_signals: the same.
calculate_technical_signals(bars) ==
  IF bars.status = "ok" THEN bars.features ELSE <<>>

\* AlphaSignalGenerator.generate_signals: the signals dict, as the sequence of
\* its values in insertion order.  Nothing in the body of the `try' raises
\* (both feature functions return a dict, ml_predict reads it with .get), so
\* every symbol is inserted.
generate_signals(symbols, micro, tech) ==
  [i \in 1..Len(symbols) |->
     combined_signal(symbols[i], calculate_microstructure_alpha(micro[i]),
                     calculate_technical_signals(tech[i]))]

InitSignals ==
  /\ Constructed(DefaultUniverse)
  /\ \E micro \in [1..MaxUniverse -> MicroBars],
        tech \in [1..MaxUniverse -> TechBars] :
       call = [fn |-> "generate_signals", done |-> FALSE,
               universe |-> DefaultUniverse, micro |-> micro, tech |-> tech,
               result |-> <<>>]

CallGenerateSignals ==
  /\ call.fn = "generate_signals"
  /\ ~call.done
  /\ call' = [call EXCEPT !.done = TRUE,
                          !.result = generate_signals(call.universe, call.micro,
                                                      call.tech)]
  /\ UNCHANGED callFrame

NextSignals == CallGenerateSignals

SpecSignals == InitSignals /\ [][NextSignals]_vars

\* ------------------------------------------ MarketDataEngine.process_tick
MaxTicks == 3

\* The instruments of the feed.
TickSymbols == {AllSymbols[1], AllSymbols[2]}

\* How many ticks of an instrument the engine has processed when the
\* observation starts: none, one short of what calculate_features needs, one
\* short of the capacity of a buffer, or as many as the capacity.
TickHistories == {0, 9, 9999, 10000}

\* The n-th tick of an instrument; the buffer holds it with its timestamp.
Tick(symbol, n) == [symbol |-> symbol, id |-> n]

\* MarketDataEngine.__init__ and the process_tick calls of the history:
\* tick_buffers has a deque for each instrument that had a tick.
InitTicks ==
  /\ Constructed(DefaultUniverse)
  /\ \E history \in [TickSymbols -> TickHistories] :
       call = [fn |-> "process_tick",
               ingested |-> history,
               ticks |-> 0,
               tick_buffers |->
                 [sy \in { x \in TickSymbols : history[x] > 0 } |->
                    [i \in 1..history[sy] |-> Tick(sy, i)]],
               features_cache |->
                 [sy \in { x \in TickSymbols : history[x] > 0 } |->
                    IF history[sy] < 10 THEN "empty" ELSE "features"]]

\* MarketDataEngine.calculate_features: {} below 10 ticks.
calculate_features(buffers, symbol) ==
  IF symbol \notin DOMAIN buffers \/ Len(buffers[symbol]) < 10
    THEN "empty" ELSE "features"

\* MarketDataEngine.process_tick for the next tick of an instrument: the
\* deque is created at its first tick, the tick is appended, then the
\* features are computed and cached unless the computation raises.
ProcessTick ==
  /\ call.fn = "process_tick"
  /\ call.ticks < MaxTicks
  /\ \E symbol \in TickSymbols, ok \in BOOLEAN :
       LET tick == Tick(symbol, call.ingested[symbol] + 1)
           old == IF symbol \in DOMAIN call.tick_buffers
                    THEN call.tick_buffers[symbol] ELSE <<>>
           buffers == [sy \in DOMAIN call.tick_buffers \cup {symbol} |->
                         IF sy = symbol THEN deque_append(old, tick, 10000)
                         ELSE call.tick_buffers[sy]]
       IN  call' = [call EXCEPT
                      !.ingested[symbol] = @ + 1,
                      !.ticks = @ + 1,
                      !.tick_buffers = buffers,
                      !.features_cache =
                        IF ok
                          THEN [sy \in DOMAIN call.features_cache \cup {symbol} |->
                                  IF sy = symbol
                                    THEN calculate_features(buffers, symbol)
                                    ELSE call.features_cache[sy]]
                          ELSE @]
  /\ UNCHANGED callFrame

NextTicks == ProcessTick

SpecTicks == InitTicks /\ [][NextTicks]_vars

\* --------------------------------------------------- ml_predict on its own
\* The dicts calculate_microstructure_alpha can return, in a fixed order: {},
\* or the features with kyle_lambda in {-1, 0, 1} and volume_imbalance (the
\* value of calculate_vpin, in hundredths) in {0, 50, 100}.  The dict has no
\* key 'vpin'.
PredictMicro ==
  << <<>> >> \o [i \in 1..9 |->
                  [kyle_lambda |-> ((i - 1) \div 3) - 1,
                   volume_imbalance |-> ((i - 1) % 3) * 50]]

\* The dicts calculate_technical_signals can return, in a fixed order: {}, or
\* the indicators with rsi in {20, 30, 50, 70, 80} and macd_signal in
\* {-1, 0, 1}.
PredictTech ==
  << <<>> >> \o [i \in 1..15 |->
                  [rsi |-> <<20, 30, 50, 70, 80>>[((i - 1) \div 3) + 1],
                   macd_signal |-> ((i - 1) % 3) - 1]]

\* The feature inputs of ml_predict are numbered from 0: input n is the pair
\* of micro dict n \div 16 and tech dict n % 16.
PredictInputs == Len(PredictMicro) * Len(PredictTech)

\* ml_predict applied to each feature input in turn: `next' is the number of
\* the next input, `directions' the directions returned so far.
InitPredict ==
  /\ Constructed(DefaultUniverse)
  /\ call = [fn |-> "ml_predict", next |-> 0, directions |-> {},
             result |-> NoExecution]

CallMlPredict ==
  /\ call.fn = "ml_predict"
  /\ call.next < PredictInputs
  /\ LET micro_features == PredictMicro[(call.next \div Len(PredictTech)) + 1]
         tech_signals == PredictTech[(call.next % Len(PredictTech)) + 1]
         r == ml_predict(micro_features, tech_signals)
     IN  call' = [call EXCEPT !.next = @ + 1,
                             !.directions = @ \cup {r.direction},
                             !.result = r]
  /\ UNCHANGED callFrame

NextPredict == CallMlPredict

SpecPredict == InitPredict /\ [][NextPredict]_vars

\* ------------------------------------------------------------------ claims
\* The event at position k of t is of kind e and about order i.
IsAbout(t, k, e, i) == t[k].ev = e /\ t[k].idx = i

\* Order i of the cycle was checked and passed.
PassedBefore(t, k, i) ==
  \E j \in 1..(k - 1) : IsAbout(t, j, "check", i) /\ t[j].passed

\* C1: within one cycle, signal generation is complete before
\* optimize_portfolio, optimize_portfolio is complete before any
\* pre_trade_check, and an order is passed to execute_order or submitted to
\* the brokerage only after its own pre_trade_check has returned passed.
C1_StageOrder ==
  \A l \in Loops : \A k \in 1..Len(trace[l]) :
    LET t == trace[l] IN
      /\ t[k].ev = "optimize" => \E j \in 1..(k - 1) : t[j].ev = "signals"
      /\ t[k].ev = "check" => \E j \in 1..(k - 1) : t[j].ev = "optimize"
      /\ t[k].ev \in {"execute", "submit"} => PassedBefore(t, k, t[k].idx)

\* C1 witness: the second order of a cycle has been submitted, after its own
\* check passed.
C1_Witness ==
  \E l \in Loops : \E k \in 1..Len(trace[l]) :
    IsAbout(trace[l], k, "submit", 2) /\ PassedBefore(trace[l], k, 2)

\* The step the flag gated for order i of the cycle read it as false.
GatedOff(t, i) ==
  \E j \in 1..Len(t) : IsAbout(t, j, "gate", i) /\ ~t[j].enabled

\* C2: an order that reaches the execution step while trading_enabled is
\* false is not passed to execute_order and nothing is submitted for it; the
\* cycle has generated its signals, sized and checked that order as usual, and
\* it goes on to check the next order.
C2_DisabledOnlyLogs ==
  \A l \in Loops : \A k \in 1..Len(trace[l]) :
    LET t == trace[l] IN
      /\ t[k].ev \in {"execute", "submit"} => ~GatedOff(t, t[k].idx)
      /\ (t[k].ev = "gate" /\ ~t[k].enabled) =>
           /\ HasEvent(t, "signals") /\ HasEvent(t, "optimize")
           /\ PassedBefore(t, k, t[k].idx)
           /\ k < Len(t) =>
                \/ IsAbout(t, k + 1, "check", t[k].idx + 1)
                \/ t[k + 1].ev = "abort" /\ t[k + 1].why = "pre_trade_check"
                \/ t[k + 1].ev = "end" /\ t[k].idx = Len(orders[l])

\* C2 witness: trading was disabled at the first order, which was only
\* logged, and the second order has been checked.
C2_Witness ==
  \E l \in Loops :
    /\ GatedOff(trace[l], 1)
    /\ \E k \in 1..Len(trace[l]) : IsAbout(trace[l], k, "check", 2)

\* C3: execute_order never raises: it returns a result, and after a failure
\* in strategy selection or in a brokerage submission (aggressive, passive or
\* a chunk of adaptive) the result has status 'failed' and carries the error.
C3_ExecuteNeverRaises ==
  \A l \in Loops :
    /\ \A k \in 1..Len(trace[l]) :
         LET t == trace[l] IN
           /\ t[k].ev = "result" => t[k].status \in {"submitted", "failed"}
           /\ t[k].ev = "fault" =>
                /\ k < Len(t)
                /\ IsAbout(t, k + 1, "result", t[k].idx)
                /\ t[k + 1].status = "failed"
    /\ pc[l] = "surveil" =>
         /\ execution[l].status \in {"submitted", "failed"}
         /\ execution[l].status = "failed" => "error" \in DOMAIN execution[l]

\* C3 witness: a chunk of an adaptive execution failed after an earlier chunk
\* had been submitted, and execute_order returned a failed result.
C3_Witness ==
  \E l \in Loops :
    /\ pc[l] = "surveil"
    /\ execution[l].status = "failed"
    /\ \E k \in 1..Len(trace[l]) : trace[l][k].ev = "submit"

\* Order i of the cycle has been compliance-checked.
Checked(t, i) == \E k \in 1..Len(t) : IsAbout(t, k, "check", i)

\* C4: a cycle in which an order was executed still checks every order of its
\* list: it does not end with orders left unchecked.
C4_ExecutedOrderDoesNotEndCycle ==
  \A l \in Loops :
    (pc[l] = "ended" /\ HasEvent(trace[l], "result")) =>
      \A i \in 1..Len(orders[l]) : Checked(trace[l], i)

\* C5: pre_trade_check passes an order exactly when it found no violation,
\* and an order with a violation is never passed to execute_order, never
\* submitted, and not checked a second time in the cycle.
C5_ViolationSkipsOrder ==
  \A l \in Loops : \A k \in 1..Len(trace[l]) :
    LET t == trace[l] IN
      t[k].ev = "check" =>
        /\ t[k].passed <=> Len(t[k].violations) = 0
        /\ Len(t[k].violations) > 0 =>
             \A j \in 1..Len(t) :
               /\ ~(t[j].ev \in {"gate", "execute", "submit"} /\ t[j].idx = t[k].idx)
               /\ IsAbout(t, j, "check", t[k].idx) => j = k

\* C5 witness: the first order had a violation and the cycle went on to the
\* second, which was executed.
C5_Witness ==
  \E l \in Loops :
    /\ \E k \in 1..Len(trace[l]) :
         IsAbout(trace[l], k, "check", 1) /\ Len(trace[l][k].violations) > 0
    /\ \E k \in 1..Len(trace[l]) : IsAbout(trace[l], k, "execute", 2)

\* The cycle of the trace was ended by a failed fetch of the positions or of
\* the account: the get_all_positions / get_account of run_trading_cycle and
\* optimize_portfolio, or the get_account inside pre_trade_check.
SnapshotFailed(t) ==
  \E k \in 1..Len(t) :
    /\ t[k].ev = "abort"
    /\ t[k].why \in {"get_all_positions", "get_account", "pre_trade_check"}

\* C6, in a state: a cycle in which the fetch of the positions or of the
\* account failed has submitted nothing, and the loop is not terminated: the
\* cycle has returned to start().
C6_SnapshotFailureState ==
  \A l \in Loops :
    SnapshotFailed(trace[l]) =>
      /\ ~HasEvent(trace[l], "submit")
      /\ ~HasEvent(trace[l], "execute")
      /\ pc[l] = "ended"

\* C6, in a step: from the end of a cycle the task goes to its wait and from
\* there to the test of is_running, and a task that finds is_running true is
\* not terminated: it begins a fresh cycle or, the market closed, waits.
C6_LoopGoesOn ==
  \A l \in Loops :
    /\ pc[l] = "ended" => pc'[l] \in {"ended", "sleep"}
    /\ pc[l] = "sleep" => pc'[l] \in {"sleep", "while"}
    /\ (pc[l] = "while" /\ is_running) => pc'[l] \in {"while", "signals", "sleep"}

\* C6: a failed fetch of the positions or of the account ends the cycle
\* without any submission and without terminating the control loop, which
\* attempts a fresh cycle at its next iteration while still running.
C6_SnapshotFailureIsCycleFatal ==
  [] C6_SnapshotFailureState /\ [][C6_LoopGoesOn]_vars

\* C6 witness: the account fetch of optimize_portfolio failed and the cycle
\* has ended.
C6_Witness ==
  \E l \in Loops :
    /\ pc[l] = "ended"
    /\ \E k \in 1..Len(trace[l]) :
         trace[l][k].ev = "abort" /\ trace[l][k].why = "get_account"

\* C7: a cycle during which stop was called has, when it ends, processed
\* every order of its list.
C7_StoppedCycleProcessesAllOrders ==
  \A l \in Loops :
    (pc[l] = "ended" /\ HasEvent(trace[l], "stop")) =>
      \A i \in 1..Len(orders[l]) : Checked(trace[l], i)

\* C8: a control loop that was running when stop was called begins no new
\* trading cycle.
C8_StoppedLoopBeginsNoCycle ==
  \A l \in Loops : stopped[l] = "yes" => pc[l] # "signals"

\* The positions of a task inside run_trading_cycle.
InCycle ==
  {"signals", "positions", "optimize", "check", "gate", "execute", "chunk",
   "chunk_sleep", "surveil"}

\* C9: at most one trading cycle is in progress at any time.
C9_OneCycleAtATime ==
  Cardinality({ l \in Loops : pc[l] \in InCycle }) <= 1

\* C10: every order returned by optimize_portfolio has an integer quantity > 0
\* with quantity x price <= min(10% of equity, buying power), for the price
\* used to size it and the account fetched at the start of the call.
C10_SizingWithinCaps ==
  call.fn = "optimize_portfolio" /\ call.done =>
    \A k \in 1..Len(call.orders) :
      LET o == call.orders[k] IN
        /\ o.quantity \in Nat \ {0}
        /\ 10 * o.quantity * o.px <= call.account.equity
        /\ o.quantity * o.px <= call.account.buying_power

\* C10 witness: a call returned an order for an account whose 90% of buying
\* power is below 10% of equity, and the order is the largest that fits it.
C10_Witness ==
  /\ call.fn = "optimize_portfolio" /\ call.done
  /\ Len(call.orders) >= 1
  /\ \E a \in RiskAccounts, k \in 1..Len(call.orders) :
       /\ a = call.account
       /\ 72 * a.buying_power < 8 * a.equity
       /\ (call.orders[k].quantity + 1) * call.orders[k].px * 10 > 9 * a.buying_power

\* C11: calculate_kelly_fraction returns a value in [0, 0.10] (0 to 8 80ths)
\* for all inputs; it returns 0 whenever expected_return <= 0 or the
\* confidence is <= 0.5, and exactly the cap 0.10 for confidence 1.0 with
\* expected_return > 0.
C11_KellyWithinCap ==
  (call.fn = "calculate_kelly_fraction" /\ call.done) =>
    /\ call.result >= 0
    /\ call.result <= 8
    /\ (call.expected_return <= 0 \/ call.win_probability <= 5) => call.result = 0
    /\ (call.win_probability = 10 /\ call.expected_return > 0) => call.result = 8

\* C11 witness: the call with confidence 1.0 and a positive expected return
\* has returned the cap.
C11_Witness ==
  /\ call.fn = "calculate_kelly_fraction" /\ call.done
  /\ call.win_probability = 10 /\ call.expected_return > 0
  /\ call.result = 8

\* The call of apply_risk_constraints has returned.
ConstraintsDone == call.fn = "apply_risk_constraints" /\ call.done

\* current_leverage > 0.8 * max_leverage = 1.6, and concentration_risk > 0.3.
LeverageHigh ==
  10 * call.risk_metrics.current_leverage.num
    > 16 * call.risk_metrics.current_leverage.den
ConcentrationHigh ==
  10 * call.risk_metrics.concentration_risk.num
    > 3 * call.risk_metrics.concentration_risk.den

\* C12: when the current leverage exceeds 80% of max_leverage, every order in
\* the output of apply_risk_constraints has a quantity strictly less than the
\* quantity the order for that symbol had before scaling, and none has
\* quantity zero.
C12_LeverageScalesDown ==
  (ConstraintsDone /\ LeverageHigh) =>
    \A k \in 1..Len(call.result) :
      /\ call.result[k].quantity > 0
      /\ \E j \in 1..Len(call.orders) :
           /\ call.orders[j].symbol = call.result[k].symbol
           /\ call.result[k].quantity < call.orders[j].quantity

\* C12 witness: with the leverage above 1.6 a list holding an order of
\* quantity 1 and a larger one was returned without the former.
C12_Witness ==
  /\ ConstraintsDone /\ LeverageHigh
  /\ Len(call.result) >= 1
  /\ \E j \in 1..Len(call.orders) :
       /\ call.orders[j].quantity = 1
       /\ \A k \in 1..Len(call.result) :
            call.result[k].symbol # call.orders[j].symbol

\* C13: when the concentration of the portfolio exceeds 0.3, the returned
\* order list has at most 3 orders, however many were proposed.
C13_ConcentrationCutsToThree ==
  (ConstraintsDone /\ ConcentrationHigh) => Len(call.result) <= 3

\* C13 witness: more than 3 orders were proposed for a concentrated
\* portfolio and 3 were returned.
C13_Witness ==
  /\ ConstraintsDone /\ ConcentrationHigh
  /\ Len(call.orders) > 3
  /\ Len(call.result) = 3

\* The submissions made for order i of the cycle, in order.
SubmissionsFor(t, i) == SelectSeq(t, LAMBDA e : e.ev = "submit" /\ e.idx = i)

\* C14: the strategy execute_order selects for an order depends on that order
\* alone: aggressive (at most one submission, a market order for the whole
\* quantity) when its signal confidence is > 0.8, whatever the quantity;
\* otherwise passive (one limit order for the whole quantity) when its
\* quantity is > 1000; otherwise adaptive.
C14_StrategyByOrderOnly ==
  \A l \in Loops : \A k \in 1..Len(trace[l]) :
    LET t == trace[l] IN
      t[k].ev = "execute" =>
        LET o == orders[l][t[k].idx]
            subs == SubmissionsFor(t, t[k].idx)
        IN  /\ o.signal.confidence > 8 =>
                 /\ t[k].strategy = "AGGRESSIVE"
                 /\ Len(subs) <= 1
                 /\ \A j \in 1..Len(subs) :
                      subs[j].kind = "market" /\ subs[j].quantity = o.quantity
            /\ (o.signal.confidence <= 8 /\ o.quantity > 1000) =>
                 /\ t[k].strategy = "PASSIVE"
                 /\ Len(subs) <= 1
                 /\ \A j \in 1..Len(subs) :
                      subs[j].kind = "limit" /\ subs[j].quantity = o.quantity
            /\ (o.signal.confidence <= 8 /\ o.quantity <= 1000) =>
                 t[k].strategy = "ADAPTIVE"

\* C14 witness: the second order of a cycle, of confidence 0.9 and of more
\* than 1000 units, went out as one market order.
C14_Witness ==
  \E l \in Loops :
    /\ Len(orders[l]) >= 2
    /\ orders[l][2].signal.confidence > 8
    /\ orders[l][2].quantity > 1000
    /\ Len(SubmissionsFor(trace[l], 2)) = 1
    /\ SubmissionsFor(trace[l], 2)[1].kind = "market"

\* C15: the adaptive execution of a 23-unit order submits the chunks
\* [5, 5, 5, 5, 3], reports 5 chunks in its result and begins the inter-chunk
\* delay exactly 4 times.
C15_TwentyThreeInFiveChunks ==
  (call.fn = "adaptive_execution" /\ call.at = "returned"
     /\ call.order.quantity = 23) =>
    /\ [k \in 1..Len(call.submitted) |-> call.submitted[k].quantity]
         = <<5, 5, 5, 5, 3>>
    /\ call.result.chunks = 5
    /\ call.delays = 4

\* Entry e of the trade log is a sell of the symbol, at most 30 days (60 half
\* days) before now.
RecentSellOf(e, symbol, now) ==
  /\ "symbol" \in DOMAIN e.execution
  /\ e.execution.symbol = symbol
  /\ e.execution.side = "sell"
  /\ now - e.timestamp <= 60

\* C16: is_wash_sale flags an order exactly when it is a buy and the trade
\* log holds a sell of the same instrument that is at most 30 days old; sell
\* orders, and buys when the log holds only sells of other instruments or
\* older sells, are not flagged.
C16_WashSaleWithinThirtyDays ==
  (call.fn = "is_wash_sale" /\ call.done) =>
    (call.result <=>
       /\ call.order.side = "buy"
       /\ \E k \in 1..Len(call.log) :
            RecentSellOf(call.log[k], call.order.symbol, call.now))

\* The returned mapping has a signal for the symbol.
HasSignal(sigs, symbol) == \E k \in 1..Len(sigs) : sigs[k].symbol = symbol

\* C17: generate_signals returns (it does not raise), and a symbol of the
\* universe is in the returned mapping exactly when computing its features
\* did not fail: a symbol whose market-data call failed is absent, every
\* other symbol has its signal.
C17_FailedSymbolOmitted ==
  (call.fn = "generate_signals" /\ call.done) =>
    \A i \in 1..Len(call.universe) :
      HasSignal(call.result, call.universe[i])
        <=> (call.micro[i] # BarsError /\ call.tech[i] # BarsError)

\* C18: after n ticks of an instrument were ingested, its tick buffer holds
\* exactly the most recent min(n, 10000) of them in arrival order (never more
\* than the capacity, the oldest evicted first), and nothing of any other
\* instrument; an instrument without ticks has no buffer.
C18_TickBufferIsRing ==
  call.fn = "process_tick" =>
    \A sy \in TickSymbols :
      LET n == call.ingested[sy]
          m == Min(n, 10000)
      IN  IF n = 0
            THEN sy \notin DOMAIN call.tick_buffers
            ELSE /\ sy \in DOMAIN call.tick_buffers
                 /\ Len(call.tick_buffers[sy]) = m
                 /\ \A i \in 1..m :
                      call.tick_buffers[sy][i] = Tick(sy, n - m + i)

\* C18 witness: an instrument has had more ticks than the capacity of its
\* buffer, which has evicted the first of them, while the other instrument
\* had ticks too.
C18_Witness ==
  /\ call.fn = "process_tick"
  /\ \E sy \in TickSymbols :
       /\ call.ingested[sy] > 10000
       /\ Head(call.tick_buffers[sy]).id = call.ingested[sy] - 9999
       /\ \E other \in TickSymbols \ {sy} :
            call.ingested[other] > 0 /\ call.ticks > call.ingested[sy] - 10000

\* The number of execution results the cycle of the trace has produced.
ResultCount(t) == Cardinality({ k \in 1..Len(t) : t[k].ev = "result" })

\* C19: every execution result produced in a cycle, submitted or failed, is
\* appended to the trade log as one entry: once the surveillance step of a
\* result is over, the log (of capacity 10,000) holds an entry for each
\* result of the cycle.
C19_EveryResultIsLogged ==
  \A l \in Loops :
    pc[l] # "surveil" => Len(trade_log) >= Min(10000, ResultCount(trace[l]))

\* C20: every signal scored by ml_predict has a direction in {-1, 0, +1}, a
\* confidence in [0, 1] capped below 1 (at most 9 tenths), and an
\* expected_return equal to direction x the returned confidence x 0.02
\* (direction x confidence in tenths, in units of 0.002).
C20_ExpectedReturnFromReturnedConfidence ==
  \A l \in Loops : \A i \in 1..Len(signals[l]) :
    LET sig == signals[l][i] IN
      /\ sig.direction \in {-1, 0, 1}
      /\ sig.confidence >= 0 /\ sig.confidence <= 9
      /\ sig.expected_return = sig.direction * sig.confidence

\* The total notional of a list of orders: the sum of quantity x the price
\* each was sized at.
RECURSIVE TotalNotional(_)
TotalNotional(os) ==
  IF os = <<>> THEN 0
  ELSE Head(os).quantity * Head(os).px + TotalNotional(Tail(os))

\* C21: the orders returned by one optimize_portfolio call are sized against
\* the buying power that remains after the orders sized before them, so their
\* total notional does not exceed the buying power fetched at the start of
\* the call.
C21_TotalWithinBuyingPower ==
  (call.fn = "optimize_portfolio" /\ call.done) =>
    TotalNotional(call.orders) <= call.account.buying_power

\* The order was proposed, is not in the returned list, and was not removed
\* for a quantity scaled down to zero: the truncation dropped it.
DroppedByTruncation(o) ==
  /\ ~HasSignal(call.result, o.symbol)
  /\ LeverageHigh => o.quantity >= 2

\* C22: when the concentration exceeds 0.3 and more than three orders are
\* proposed, every order kept by the truncation has a signal confidence
\* greater than or equal to that of every order the truncation dropped.
C22_TruncationKeepsHighestConviction ==
  (ConstraintsDone /\ ConcentrationHigh /\ Len(call.orders) > 3) =>
    \A k \in 1..Len(call.result), j \in 1..Len(call.orders) :
      DroppedByTruncation(call.orders[j]) =>
        call.result[k].signal.confidence >= call.orders[j].signal.confidence

\* The sum of the quantities of a list of submissions.
RECURSIVE SubmittedQuantity(_)
SubmittedQuantity(subs) ==
  IF subs = <<>> THEN 0 ELSE Head(subs).quantity + SubmittedQuantity(Tail(subs))

\* C23: for every quantity q >= 1 an adaptive execution that returns has
\* submitted chunks that are all positive and sum to q, a market order at
\* every even chunk index (from 0) and a limit order at every odd one, reports
\* the number of chunks submitted, and has begun the delay exactly (number of
\* chunks - 1) times; the delay never follows the last submission made.
C23_ChunksSumAndAlternate ==
  call.fn = "adaptive_execution" =>
    /\ call.delays <= Max(0, Len(call.chunks) - 1)
    /\ call.at = "returned" =>
         /\ \A k \in 1..Len(call.submitted) :
              /\ call.submitted[k].quantity > 0
              /\ call.submitted[k].kind
                   = IF (k - 1) % 2 = 0 THEN "market" ELSE "limit"
         /\ SubmittedQuantity(call.submitted) = call.order.quantity
         /\ call.result.chunks = Len(call.submitted)
         /\ call.delays = Len(call.submitted) - 1

\* C23 witness: a 23-unit order has returned after six chunks and five
\* delays.
C23_Witness ==
  /\ call.fn = "adaptive_execution" /\ call.at = "returned"
  /\ call.order.quantity = 23
  /\ Len(call.submitted) = 6
  /\ call.delays = 5

\* C24: no order is sized from a made-up price: every order optimize_portfolio
\* returns is for a symbol whose price lookup at the brokerage succeeded, and
\* is sized at the price that lookup returned.
C24_NoOrderFromFabricatedPrice ==
  (call.fn = "optimize_portfolio" /\ call.done) =>
    \A k \in 1..Len(call.orders) : \A i \in 1..Len(call.signals) :
      call.signals[i].symbol = call.orders[k].symbol =>
        /\ call.prices[i].ok
        /\ call.orders[k].px = call.prices[i].current_price

\* C25: there are feature inputs for which ml_predict returns direction -1:
\* once ml_predict has scored every feature input, -1 is among the directions
\* it returned.
C25_ShortDirectionReachable ==
  (call.fn = "ml_predict" /\ call.next = PredictInputs) =>
    -1 \in call.directions

\* C26: for signals whose expected_return has the sign of their direction,
\* every order optimize_portfolio returns has side 'buy': a signal of
\* direction -1 gets a Kelly fraction of 0 and no order.
C26_OnlyBuyOrders ==
  (call.fn = "optimize_portfolio" /\ call.done) =>
    /\ \A i \in 1..Len(call.signals) :
         call.signals[i].expected_return * call.signals[i].direction >= 0
    /\ \A k \in 1..Len(call.orders) :
         /\ call.orders[k].side = "buy"
         /\ call.orders[k].signal.direction = 1

\* C26 witness: the call was given a short signal of confidence above 0.6 and
\* a long one, and returned an order for the long one only.
C26_Witness ==
  /\ call.fn = "optimize_portfolio" /\ call.done
  /\ \E i \in 1..Len(call.signals) :
       /\ call.signals[i].direction = -1
       /\ call.signals[i].confidence > 6
       /\ ~HasSignal(call.orders, call.signals[i].symbol)
  /\ Len(call.orders) = 1

\* C27: whenever execute_order returns a result with status 'failed', no
\* submission was made to the brokerage for that order.
C27_FailedMeansNothingSubmitted ==
  \A l \in Loops : \A k \in 1..Len(trace[l]) :
    (trace[l][k].ev = "result" /\ trace[l][k].status = "failed") =>
      Len(SubmissionsFor(trace[l], trace[l][k].idx)) = 0

\* The number of submissions the cycle of the trace has made.
SubmitCount(t) == Cardinality({ k \in 1..Len(t) : t[k].ev = "submit" })

\* C28, in a step: a step taken while trading_enabled is false makes no
\* submission.
C28_DisabledStepSubmitsNothing ==
  ~trading_enabled =>
    \A l \in Loops : SubmitCount(trace'[l]) <= SubmitCount(trace[l])

\* C28: once trading_enabled has been set to false, no submission is made to
\* the brokerage until it is set to true again, the remaining chunks of an
\* adaptive execution included.
C28_NoSubmissionWhileDisabled == [][C28_DisabledStepSubmitsNothing]_vars

\* The number of proposed orders that keep a non-zero quantity when halved.
SurvivorsOfScaling(os) ==
  Cardinality({ j \in 1..Len(os) : os[j].quantity \div 2 > 0 })

\* C29: when the leverage scale-down and the concentration truncation both
\* fire and at least three proposed orders keep a non-zero quantity after
\* scaling, apply_risk_constraints returns exactly three orders.
C29_TruncationAfterFilter ==
  (ConstraintsDone /\ LeverageHigh /\ ConcentrationHigh
     /\ SurvivorsOfScaling(call.orders) >= 3) =>
    Len(call.result) = 3

\* C30, in a step: every submission a step makes is for an instrument of the
\* universe tracked at that moment.
C30_SubmissionIsTracked ==
  \A l \in Loops : \A k \in (Len(trace[l]) + 1)..Len(trace'[l]) :
    trace'[l][k].ev = "submit" =>
      \E i \in 1..Len(universe) : universe[i] = trace'[l][k].symbol

\* C30: every order submitted to the brokerage is for an instrument that is
\* in the tracked universe at the moment of submission, also when the
\* universe is replaced while a cycle is in progress.
C30_SubmitsOnlyTrackedInstruments == [][C30_SubmissionIsTracked]_vars

====
